---- MODULE Spec2Model ----
(***************************************************************************)
(* The real-time collaboration core of synqhub_backend:                    *)
(*   app/websocket/connection_manager.py  UserConnection,                  *)
(*       CollaborationSession, WebSocketConnectionManager                  *)
(*   app/websocket/message_handler.py     MessageHandler                   *)
(*   app/routers/websocket_router.py      websocket_endpoint               *)
(* One asyncio event loop runs one task per websocket endpoint plus the    *)
(* management calls.  A step of the model is what a task does between two  *)
(* suspension points (an await that really suspends: a transport receive,  *)
(* send, accept or close, or an asyncio.Lock that is not free).            *)
(***************************************************************************)
EXTENDS Integers, Sequences, FiniteSets, TLC

\* ---------------------------------------------------------------- bounds
MaxVersion == 3      \* edits and undos applied to one session object
MaxTasks == 3        \* websocket endpoint tasks started (small specifications)
MaxObjs == 3         \* CollaborationSession objects constructed
MaxComments == 1     \* comments added to one session object
MaxInFlight == 2     \* concurrent connect() calls in SpecCap
ExtraConnects == 2   \* connect() calls beyond the participant cap in SpecCap
CapHeadroom == 2     \* free places in the session SpecCap starts from
MaxTime == 2         \* ticks the clock of SpecRate advances
SecondTicks == 2     \* clock ticks in one second
MaxOtherCalls == 2   \* allowed check_rate_limit calls of the second key in SpecRate

\* ------------------------------------------------------ program constants
MaxParticipants == 100
max_messages_per_second == 10
max_messages_per_minute == 500

None == 0
Deleter == -1        \* the task running delete_session
Sweeper == -2        \* the task running cleanup_inactive_connections

SessionIds == {"s1", "s2"}
Users == {"u1", "u2"}
Objs == 1..MaxObjs

VARIABLES
  sessions,          \* WebSocketConnectionManager.sessions: session id -> object (None: absent)
  nobj,              \* number of CollaborationSession objects constructed so far
  user_connections,  \* WebSocketConnectionManager.user_connections: user -> list of connections
  mlock,             \* WebSocketConnectionManager.lock (asyncio.Lock): [holder, waiters]
  content,           \* CollaborationSession.content, per object
  version,           \* CollaborationSession.version
  edit_history,      \* CollaborationSession.edit_history
  comments,          \* CollaborationSession.comments
  connections,       \* CollaborationSession.connections (dict, in insertion order)
  lock,              \* CollaborationSession.lock (asyncio.Lock): [holder, waiters]
  pc,                \* per endpoint task: the await it is suspended at
  sid,               \* per endpoint task: the session_id of the request
  user,              \* per endpoint task: the user_id of the verified token
  sess,              \* per endpoint task: the session object its locals refer to
  cur,               \* per endpoint task: the inbound message being handled
  bc,                \* per endpoint task: the broadcast_message call in progress
  state,             \* UserConnection.state ("none" before the object exists)
  stale,             \* UserConnection.last_activity is older than the timeout
  ws,                \* the transport of the connection: "open", "closed" or "stuck"
  cursor_position,   \* UserConnection.cursor_position (an abstract value)
  mgr,               \* the management tasks: delete_session and cleanup_inactive_connections
  applied,           \* history: the messages for which apply_edit returned True, per object
  undos,             \* history: number of undos handle_undo applied, per object
  lastWrite,         \* history: the last write to session state: [task, holder]
  lastBc,            \* history: the last broadcast_message call of an edit that completed
  lastMut,           \* history: per object, the last change of content and what it was before
  message_counts,    \* RateLimiter.message_counts: (user, session) key -> list of timestamps
  now,               \* the clock datetime.utcnow() reads, in ticks
  granted,           \* history: per key, the times of the check_rate_limit calls that were allowed
  lastCall,          \* history: the last check_rate_limit call: [key, at, allowed]
  left,              \* history: the connections whose user_left message has been broadcast
  lastResolve        \* history: the last resolve of a comment that was resolved already

vars == <<sessions, nobj, user_connections, mlock, content, version, edit_history,
          comments, connections, lock, pc, sid, user, sess, cur, bc, state, stale, ws,
          cursor_position, mgr, applied, undos, lastWrite, lastBc, lastMut,
          message_counts, now, granted, lastCall, left, lastResolve>>

regVars == <<sessions, nobj, user_connections, mlock>>
docVars == <<content, version, edit_history, applied, undos, lastMut>>
connVars == <<state, stale, ws, cursor_position>>
secVars == <<message_counts, now, granted, lastCall>>
auxVars == <<secVars, left, lastResolve>>

\* ------------------------------------------------------------- sequences
Min(S) == CHOOSE x \in S : \A y \in S : x <= y

Range(s) == {s[i] : i \in 1..Len(s)}

Without(s, x) == SelectSeq(s, LAMBDA e : e # x)

WithoutAll(s, X) == SelectSeq(s, LAMBDA e : e \notin X)

\* Python's slice bound: a negative index counts from the end, and every index
\* is clamped to 0..len.
PyIndex(n, i) == IF i < 0 THEN (IF n + i < 0 THEN 0 ELSE n + i) ELSE (IF i > n THEN n ELSE i)

\* s[:p]
SliceTo(s, p) == SubSeq(s, 1, PyIndex(Len(s), p))

\* s[p:]
SliceFrom(s, p) == SubSeq(s, PyIndex(Len(s), p) + 1, Len(s))

\* ------------------------------------------------------------- messages
\* message.data["operation"].  typed is FALSE when position, length or content
\* has a JSON type the slicing cannot use (a string for a position, ...).
Op(t, p, c, n) == [type |-> t, position |-> p, content |-> c, length |-> n, typed |-> TRUE]

NoOp == [type |-> "none", position |-> 0, content |-> <<>>, length |-> 0, typed |-> TRUE]

BadOp == [type |-> "insert", position |-> 0, content |-> <<>>, length |-> 0, typed |-> FALSE]

\* An inbound WebSocketMessage: its type, its sender, the operation of an edit,
\* and for a comment or presence message its comment_type / presence_type and
\* the comment id it names.
\* operation_id is the id the client gave the message: one per sender and
\* operation.
OperationId(u, op) == <<u, op.type, op.position, op.typed>>

InMsg(ty, u, op, kind, cid) ==
  [type |-> ty, user_id |-> u, op |-> op, kind |-> kind, cid |-> cid,
   operation_id |-> OperationId(u, op)]

NoMsg == InMsg("none", "", NoOp, "", 0)

\* An outbound WebSocketMessage as the handlers build it.
OutMsg(ty, u, v, op, kind) == [type |-> ty, user_id |-> u, version |-> v, op |-> op, kind |-> kind]

\* handle_edit, the acknowledgement of inbound edit m at session version v.
AckWithoutOperationId(m, v) ==
  [type |-> "ack", user_id |-> m.user_id, version |-> v, op |-> NoOp, kind |-> "",
   operation_id |-> <<>>]

AckMessage(m, v) ==
  [type |-> "ack", user_id |-> m.user_id, version |-> v, op |-> NoOp, kind |-> "",
   operation_id |-> m.operation_id]

\* The locals of one broadcast_message call: the message, the excluded
\* connection id, the position of the loop in the connection dict (over), the
\* disconnected list; and what the caller does when it returns (after).  sent
\* and skipped record the connections send_message was called on and those
\* found inactive; made records the version the caller's own edit produced.
NoBc == [msg |-> OutMsg("none", "", 0, NoOp, ""), exclude |-> None, idx |-> 0,
         over |-> <<>>, disconnected |-> <<>>, sent |-> <<>>, skipped |-> <<>>,
         after |-> "recv", made |-> 0]

NoLock == [holder |-> None, waiters |-> <<>>]

\* ------------------------------------------------------------ asyncio.Lock
\* Lock.acquire() returns at once when the lock is free and nobody waits for it;
\* otherwise the caller queues.  release() hands the lock to the first waiter.
CanTake(l) == l.holder = None /\ l.waiters = <<>>

IsNext(l, t) == l.holder = None /\ l.waiters # <<>> /\ Head(l.waiters) = t

Enqueue(l, t) == [l EXCEPT !.waiters = Append(@, t)]

Dequeue(l, t) == [l EXCEPT !.waiters = Without(@, t)]

Held(l, t) == [holder |-> t, waiters |-> Without(l.waiters, t)]

ReleasedNever(l) == l

Released(l) == [l EXCEPT !.holder = None]

\* ---------------------------------------------------------- UserConnection
\* UserConnection.is_active
is_active(st, sl, c) == st[c] # "disconnected" /\ ~sl[c]

\* ------------------------------------------------- CollaborationSession data
\* apply_edit, the slicing of an insert or delete; any other operation type
\* leaves the content as it is.
ApplyOperationDropsTail(c, op) ==
  IF op.type = "insert"
    THEN SliceTo(c, op.position) \o op.content
  ELSE IF op.type = "delete"
    THEN SliceTo(c, op.position) \o SliceFrom(c, op.position + op.length)
  ELSE c

ApplyOperation(c, op) ==
  IF op.type = "insert"
    THEN SliceTo(c, op.position) \o op.content \o SliceFrom(c, op.position)
  ELSE IF op.type = "delete"
    THEN SliceTo(c, op.position) \o SliceFrom(c, op.position + op.length)
  ELSE c

\* apply_edit, line 192: self.version += 1
VersionAfterEdit(v) == v + 1

\* apply_edit, line 193: self.edit_history.append(message)
HistoryPrepended(h, m) == <<m>> \o h

HistoryAfterEdit(h, m) == Append(h, m)

\* handle_undo, line 271: session.version += 1
VersionUnchangedByUndo(v) == v

VersionAfterUndo(v) == v + 1

\* handle_undo with an empty history, line 286: return False
VersionBumpedByFailedUndo(v) == v + 1

VersionAfterFailedUndo(v) == v

\* handle_undo, line 272: session.edit_history.pop()
HistoryAfterUndo(h) == SubSeq(h, 1, Len(h) - 1)

\* apply_edit raises (and returns False) only when the slicing raises.
ApplyRaises(op) == op.type \in {"insert", "delete"} /\ ~op.typed

\* handle_undo, the reversal of the last edit.
UndoDropsTail(c, op) ==
  IF op.type = "insert" THEN SliceTo(c, op.position) ELSE c

UndoOperation(c, op) ==
  IF op.type = "insert"
    THEN SliceTo(c, op.position) \o SliceFrom(c, op.position + Len(op.content))
  ELSE IF op.type = "delete"
    THEN SliceTo(c, op.position) \o op.content \o SliceFrom(c, op.position)
  ELSE c

InBounds(c, op) ==
  /\ op.type \in {"insert", "delete"}
  /\ op.position >= 0
  /\ op.position <= Len(c)
  /\ op.type = "delete" => op.position + op.length <= Len(c)

\* The locals of delete_session: the session id, the session object, the
\* connection being closed, the connections the loop has passed and the size
\* of the dict when the loop started.
IdleDel == [pc |-> "idle", sid |-> "", obj |-> None, at |-> None, passed |-> {}, n |-> 0]

\* The locals of cleanup_inactive_connections: the session objects still to
\* visit (the first is the current one) and the inactive connection ids still
\* to remove from the current one.
IdleSweep == [pc |-> "idle", objs |-> <<>>, inactive |-> <<>>]

NoWrite == [task |-> None, holder |-> None]

\* A write to session state by task t, made while the session lock was held by h.
Write(t, h) == [task |-> t, holder |-> h]

NoMut == [kind |-> "none", c0 |-> <<>>, v0 |-> 0, op |-> NoOp]

\* RateLimiter.check_rate_limit: key = f"{user_id}:{session_id}"
Keys == Users \X SessionIds

NoCall == [key |-> <<"", "">>, at |-> 0, allowed |-> TRUE]

NoResolve == [cid |-> 0, before |-> <<>>, after |-> <<>>]

\* ------------------------------------------------------------------- Init
Init ==
  /\ sessions = [s \in SessionIds |-> None]
  /\ nobj = 0
  /\ user_connections = [u \in Users |-> <<>>]
  /\ mlock = NoLock
  /\ content = [o \in Objs |-> <<>>]
  /\ version = [o \in Objs |-> 0]
  /\ edit_history = [o \in Objs |-> <<>>]
  /\ comments = [o \in Objs |-> <<>>]
  /\ connections = [o \in Objs |-> <<>>]
  /\ lock = [o \in Objs |-> NoLock]
  /\ pc = <<>>
  /\ sid = <<>>
  /\ user = <<>>
  /\ sess = <<>>
  /\ cur = <<>>
  /\ bc = <<>>
  /\ state = <<>>
  /\ stale = <<>>
  /\ ws = <<>>
  /\ cursor_position = <<>>
  /\ mgr = [del |-> IdleDel, sweep |-> IdleSweep]
  /\ applied = [o \in Objs |-> <<>>]
  /\ undos = [o \in Objs |-> 0]
  /\ lastWrite = NoWrite
  /\ lastBc = NoBc
  /\ lastMut = [o \in Objs |-> NoMut]
  /\ message_counts = [k \in Keys |-> <<>>]
  /\ now = 0
  /\ granted = [k \in Keys |-> <<>>]
  /\ lastCall = NoCall
  /\ left = {}
  /\ lastResolve = NoResolve

Tasks == 1..Len(pc)


\* ---------------------------------- CollaborationSession.broadcast_message
\* The loop from position i of the connection dict on: the position of the
\* next connection that is not excluded and passes is_active (0: none is left).
NextSendToAnyone(b, i, st, sl) ==
  LET cand == {j \in i..Len(b.over) : is_active(st, sl, b.over[j])}
  IN IF cand = {} THEN 0 ELSE Min(cand)

NextSend(b, i, st, sl) ==
  LET cand == {j \in i..Len(b.over) : b.over[j] # b.exclude /\ is_active(st, sl, b.over[j])}
  IN IF cand = {} THEN 0 ELSE Min(cand)

\* The connections the loop passes between position i and the next send: the
\* excluded one is skipped, the others failed is_active.
Inactive(b, i, j) ==
  SelectSeq(SubSeq(b.over, i, IF j = 0 THEN Len(b.over) ELSE j - 1),
            LAMBDA c : c # b.exclude)

\* broadcast_message running, with the lock held, from position i until it
\* suspends in the next send_message or returns.  l is the lock as the caller
\* left it, w the write the caller's own step recorded (lastWrite if none).
Continue(t, o, l, b, i, sl, w) ==
  LET j == NextSend(b, i, state, sl)
      sk == Inactive(b, i, j)
      b2 == [b EXCEPT !.disconnected = @ \o sk, !.skipped = @ \o sk]
  IN IF j # 0
       THEN /\ bc' = [bc EXCEPT ![t] = [b2 EXCEPT !.idx = j, !.sent = Append(@, b.over[j])]]
            /\ pc' = [pc EXCEPT ![t] = "bcast_send"]
            /\ lock' = [lock EXCEPT ![o] = Held(l, t)]
            /\ lastWrite' = w
            /\ UNCHANGED <<connections, lastBc>>
       ELSE /\ connections' = [connections EXCEPT ![o] = WithoutAll(@, Range(b2.disconnected))]
            /\ lock' = [lock EXCEPT ![o] = Released(Dequeue(l, t))]
            /\ bc' = [bc EXCEPT ![t] = NoBc]
            /\ pc' = [pc EXCEPT ![t] = b.after]
            /\ lastBc' = IF b.msg.type = "edit" THEN b2 ELSE lastBc
            /\ lastWrite' = IF w = lastWrite /\ Range(b2.disconnected) \cap Range(connections[o]) # {}
                              THEN Write(t, t) ELSE w

\* A call of session.broadcast_message(msg, exclude): it runs on at once when
\* the lock is free, and queues for the lock otherwise.
StartBroadcast(t, o, l, msg, excl, after, made, sl, w) ==
  LET b == [NoBc EXCEPT !.msg = msg, !.exclude = excl, !.after = after, !.made = made]
  IN IF CanTake(l)
       THEN Continue(t, o, l, [b EXCEPT !.over = connections[o]], 1, sl, w)
       ELSE /\ lock' = [lock EXCEPT ![o] = Enqueue(l, t)]
            /\ bc' = [bc EXCEPT ![t] = b]
            /\ pc' = [pc EXCEPT ![t] = "bcast_wait"]
            /\ lastWrite' = w
            /\ UNCHANGED <<connections, lastBc>>

\* The lock is handed to a broadcast_message call that waited for it.
BcastWake(t) ==
  /\ t \in Tasks
  /\ pc[t] = "bcast_wait"
  /\ IsNext(lock[sess[t]], t)
  /\ Continue(t, sess[t], Dequeue(lock[sess[t]], t),
              [bc[t] EXCEPT !.over = connections[sess[t]]], 1, stale, lastWrite)
  /\ UNCHANGED <<regVars, docVars, comments, sid, user, sess, cur, connVars, mgr>>
  /\ UNCHANGED auxVars

\* The send_message the loop is suspended in completes: send_json returned
\* (last_activity is refreshed) or raised (the id joins the disconnected list).
BcastSendDone(t) ==
  /\ t \in Tasks
  /\ pc[t] = "bcast_send"
  /\ LET c == bc[t].over[bc[t].idx]
         ok == ws[c] = "open"
         sl == IF ok THEN [stale EXCEPT ![c] = FALSE] ELSE stale
         b == IF ok THEN bc[t] ELSE [bc[t] EXCEPT !.disconnected = Append(@, c)]
     IN /\ ws[c] # "stuck"
        /\ stale' = sl
        /\ Continue(t, sess[t], lock[sess[t]], b, bc[t].idx + 1, sl, lastWrite)
  /\ UNCHANGED <<regVars, docVars, comments, sid, user, sess, cur, state, ws,
                 cursor_position, mgr>>
  /\ UNCHANGED auxVars

\* ------------------------------------------ CollaborationSession.apply_edit
\* apply_edit with the lock held, then handle_edit up to the await of the
\* acknowledgement's send.  When the slicing raises, apply_edit returns False
\* and handle_edit returns to the receive loop.
DoApply(t, o, l, m) ==
  IF ApplyRaises(m.op)
    THEN /\ lock' = [lock EXCEPT ![o] = Released(Dequeue(l, t))]
         /\ pc' = [pc EXCEPT ![t] = "recv"]
         /\ cur' = [cur EXCEPT ![t] = NoMsg]
         /\ UNCHANGED <<docVars, bc, lastWrite>>
    ELSE /\ content' = [content EXCEPT ![o] = ApplyOperation(@, m.op)]
         /\ version' = [version EXCEPT ![o] = VersionAfterEdit(@)]
         /\ edit_history' = [edit_history EXCEPT ![o] = HistoryAfterEdit(@, m)]
         /\ applied' = [applied EXCEPT ![o] = Append(@, m)]
         /\ lastMut' = [lastMut EXCEPT ![o] =
              [kind |-> IF InBounds(content[o], m.op) THEN m.op.type ELSE "edit",
               c0 |-> content[o], v0 |-> version[o], op |-> m.op]]
         /\ lastWrite' = Write(t, t)
         /\ lock' = [lock EXCEPT ![o] = Released(Dequeue(l, t))]
         /\ cur' = [cur EXCEPT ![t] = m]
         /\ bc' = [bc EXCEPT ![t] =
              [NoBc EXCEPT !.msg = AckMessage(m, version'[o]),
                           !.made = version'[o]]]
         /\ pc' = [pc EXCEPT ![t] = "ack_send"]
         /\ UNCHANGED undos

\* --------------------------------------------- MessageHandler.handle_edit
\* receive_message returns an edit message; process_message dispatches it.
RecvEdit(t, op) ==
  /\ t \in Tasks
  /\ pc[t] = "recv"
  /\ ws[t] = "open"
  /\ version[sess[t]] < MaxVersion
  /\ stale' = [stale EXCEPT ![t] = FALSE]
  /\ LET m == InMsg("edit", user[t], op, "", 0)
     IN IF CanTake(lock[sess[t]])
          THEN DoApply(t, sess[t], lock[sess[t]], m)
          ELSE /\ lock' = [lock EXCEPT ![sess[t]] = Enqueue(@, t)]
               /\ cur' = [cur EXCEPT ![t] = m]
               /\ pc' = [pc EXCEPT ![t] = "apply_wait"]
               /\ UNCHANGED <<docVars, bc, lastWrite>>
  /\ UNCHANGED <<regVars, comments, connections, sid, user, sess, state, ws,
                 cursor_position, mgr, lastBc>>
  /\ UNCHANGED auxVars

\* The lock is handed to an apply_edit call that waited for it.
ApplyWake(t) ==
  /\ t \in Tasks
  /\ pc[t] = "apply_wait"
  /\ IsNext(lock[sess[t]], t)
  /\ DoApply(t, sess[t], lock[sess[t]], cur[t])
  /\ UNCHANGED <<regVars, comments, connections, sid, user, sess, connVars, mgr, lastBc>>
  /\ UNCHANGED auxVars

\* The acknowledgement's send completes (its result is not looked at); the
\* broadcast message is built, reading session.version now, and broadcast to
\* the other connections.
AckDone(t) ==
  /\ t \in Tasks
  /\ pc[t] = "ack_send"
  /\ ws[t] # "stuck"
  /\ LET o == sess[t]
         sl == IF ws[t] = "open" THEN [stale EXCEPT ![t] = FALSE] ELSE stale
     IN /\ stale' = sl
        /\ StartBroadcast(t, o, lock[o],
                          OutMsg("edit", cur[t].user_id, version[o], cur[t].op, ""),
                          t, "recv", bc[t].made, sl, lastWrite)
  /\ cur' = [cur EXCEPT ![t] = NoMsg]
  /\ UNCHANGED <<regVars, docVars, comments, sid, user, sess, state, ws,
                 cursor_position, mgr>>
  /\ UNCHANGED auxVars

\* --------------------------------------------- MessageHandler.handle_undo
\* An undo message: with an empty history handle_undo returns False; otherwise
\* it reverses the last edit on the session, without taking the lock, and
\* broadcasts the undo to every connection.
RecvUndo(t) ==
  /\ t \in Tasks
  /\ pc[t] = "recv"
  /\ ws[t] = "open"
  /\ edit_history[sess[t]] # <<>> => version[sess[t]] < MaxVersion
  /\ stale' = [stale EXCEPT ![t] = FALSE]
  /\ LET o == sess[t]
         h == edit_history[o]
     IN IF Len(h) > 0
          THEN LET op == h[Len(h)].op
               IN /\ content' = [content EXCEPT ![o] = UndoOperation(@, op)]
                  /\ version' = [version EXCEPT ![o] = VersionAfterUndo(@)]
                  /\ edit_history' = [edit_history EXCEPT ![o] = HistoryAfterUndo(h)]
                  /\ undos' = [undos EXCEPT ![o] = @ + 1]
                  /\ lastMut' = [lastMut EXCEPT ![o] =
                       [@ EXCEPT !.kind = IF @ = "insert" THEN "undone_insert"
                                          ELSE IF @ = "delete" THEN "undone_delete"
                                          ELSE "undo"]]
                  /\ StartBroadcast(t, o, lock[o],
                                    OutMsg("undo", user[t], version'[o], op, ""),
                                    None, "recv", 0, stale',
                                    Write(t, lock[o].holder))
                  /\ UNCHANGED applied
          ELSE /\ version' = [version EXCEPT ![o] = VersionAfterFailedUndo(@)]
               /\ lastMut' = [lastMut EXCEPT ![o] =
                    [kind |-> "undo_failed", c0 |-> content[o], v0 |-> version[o],
                     op |-> NoOp]]
               /\ UNCHANGED <<content, edit_history, applied, undos, connections, lock,
                              pc, bc, lastWrite, lastBc>>
  /\ UNCHANGED <<regVars, comments, sid, user, sess, cur, state, ws, cursor_position, mgr>>
  /\ UNCHANGED auxVars

\* ------------------------------------------- MessageHandler.handle_presence
\* handle_presence: a cursor update is stored on the connection it came from.
CursorSetForAll(cp, t, kind, v) ==
  IF kind = "cursor" THEN [c \in DOMAIN cp |-> v] ELSE cp

CursorAfterPresence(cp, t, kind, v) ==
  IF kind = "cursor" THEN [cp EXCEPT ![t] = v] ELSE cp

\* A presence message: a cursor update is stored on the sender's connection;
\* the presence is broadcast to the other connections.
RecvPresence(t, kind, v) ==
  /\ t \in Tasks
  /\ pc[t] = "recv"
  /\ ws[t] = "open"
  /\ stale' = [stale EXCEPT ![t] = FALSE]
  /\ cursor_position' = CursorAfterPresence(cursor_position, t, kind, v)
  /\ StartBroadcast(t, sess[t], lock[sess[t]],
                    OutMsg("presence", user[t], version[sess[t]], NoOp, kind),
                    t, "recv", 0, stale', lastWrite)
  /\ UNCHANGED <<regVars, docVars, comments, sid, user, sess, cur, state, ws, mgr>>
  /\ UNCHANGED auxVars

\* -------------------------------------------- MessageHandler.handle_comment
\* CollaborationSession.add_comment with the lock held, then the broadcast of
\* the new comment to every connection.
DoAddComment(t, o, l, m, sl) ==
  /\ comments' = [comments EXCEPT ![o] =
       Append(@, [id |-> Len(@) + 1, user_id |-> m.user_id, resolved |-> FALSE,
                  replies |-> <<>>])]
  /\ cur' = [cur EXCEPT ![t] = NoMsg]
  /\ StartBroadcast(t, o, Released(Dequeue(l, t)),
                    OutMsg("comment", m.user_id, version[o], NoOp, "add"),
                    None, "recv", 0, sl, Write(t, t))

\* The comment collection after a reply to comment cid by user u.
WithReply(cs, cid, u) ==
  [i \in 1..Len(cs) |-> IF cs[i].id = cid THEN [cs[i] EXCEPT !.replies = Append(@, u)]
                        ELSE cs[i]]

\* Whether the comment collection holds comment cid with its resolved flag set.
IsResolved(cs, cid) == \E i \in 1..Len(cs) : cs[i].id = cid /\ cs[i].resolved

WithResolvedToggled(cs, cid) ==
  [i \in 1..Len(cs) |-> IF cs[i].id = cid THEN [cs[i] EXCEPT !.resolved = ~@] ELSE cs[i]]

\* The comment collection after comment cid is resolved.
WithResolved(cs, cid) ==
  [i \in 1..Len(cs) |-> IF cs[i].id = cid THEN [cs[i] EXCEPT !.resolved = TRUE] ELSE cs[i]]

\* A comment message, dispatched on its comment_type: add goes through
\* add_comment; reply and resolve change the comment in place, without the
\* lock; each is then broadcast to every connection.
RecvComment(t, kind, cid) ==
  /\ t \in Tasks
  /\ pc[t] = "recv"
  /\ ws[t] = "open"
  /\ stale' = [stale EXCEPT ![t] = FALSE]
  /\ LET o == sess[t]
         m == InMsg("comment", user[t], NoOp, kind, cid)
         hit == \E i \in 1..Len(comments[o]) : comments[o][i].id = cid
     IN IF kind = "add"
          THEN /\ Len(comments[o]) < MaxComments
               /\ IF CanTake(lock[o])
                    THEN DoAddComment(t, o, lock[o], m, stale')
                    ELSE /\ lock' = [lock EXCEPT ![o] = Enqueue(@, t)]
                         /\ cur' = [cur EXCEPT ![t] = m]
                         /\ pc' = [pc EXCEPT ![t] = "comment_wait"]
                         /\ UNCHANGED <<comments, connections, bc, lastWrite, lastBc>>
          ELSE /\ kind = "reply" =>
                    \A i \in 1..Len(comments[o]) : Len(comments[o][i].replies) < MaxComments
               /\ comments' = [comments EXCEPT ![o] =
                    IF kind = "reply" THEN WithReply(@, cid, user[t])
                    ELSE IF kind = "resolve" THEN WithResolved(@, cid)
                    ELSE @]
               /\ cur' = cur
               /\ StartBroadcast(t, o, lock[o],
                                 OutMsg("comment", user[t], version[o], NoOp, kind),
                                 None, "recv", 0, stale',
                                 IF comments'[o] # comments[o]
                                   THEN Write(t, lock[o].holder)
                                   ELSE lastWrite)
  /\ lastResolve' = IF kind = "resolve" /\ IsResolved(comments[sess[t]], cid)
                      THEN [cid |-> cid, before |-> comments[sess[t]],
                            after |-> comments'[sess[t]]]
                      ELSE lastResolve
  /\ UNCHANGED <<regVars, docVars, sid, user, sess, state, ws, cursor_position, mgr>>
  /\ UNCHANGED <<secVars, left>>

\* The lock is handed to an add_comment call that waited for it.
CommentWake(t) ==
  /\ t \in Tasks
  /\ pc[t] = "comment_wait"
  /\ IsNext(lock[sess[t]], t)
  /\ DoAddComment(t, sess[t], lock[sess[t]], cur[t], stale)
  /\ UNCHANGED <<regVars, docVars, sid, user, sess, connVars, mgr>>
  /\ UNCHANGED auxVars

\* ---------------------------------------------- MessageHandler.handle_redo
\* A redo message is forwarded to every connection; nothing is replayed.
RecvRedo(t) ==
  /\ t \in Tasks
  /\ pc[t] = "recv"
  /\ ws[t] = "open"
  /\ stale' = [stale EXCEPT ![t] = FALSE]
  /\ StartBroadcast(t, sess[t], lock[sess[t]],
                    OutMsg("redo", user[t], version[sess[t]], NoOp, ""),
                    None, "recv", 0, stale', lastWrite)
  /\ UNCHANGED <<regVars, docVars, comments, sid, user, sess, cur, state, ws,
                 cursor_position, mgr>>
  /\ UNCHANGED auxVars

\* ------------------------- MessageHandler.handle_sync and handle_heartbeat
\* A sync or heartbeat message: the reply is sent to the requesting
\* connection alone.
RecvQuery(t, ty) ==
  /\ t \in Tasks
  /\ pc[t] = "recv"
  /\ ws[t] = "open"
  /\ stale' = [stale EXCEPT ![t] = FALSE]
  /\ bc' = [bc EXCEPT ![t] =
       [NoBc EXCEPT !.msg = OutMsg(ty, user[t], version[sess[t]], NoOp, "")]]
  /\ pc' = [pc EXCEPT ![t] = "reply_send"]
  /\ UNCHANGED <<regVars, docVars, comments, connections, lock, sid, user, sess, cur,
                 state, ws, cursor_position, mgr, lastWrite, lastBc>>
  /\ UNCHANGED auxVars

\* The send of a sync or heartbeat reply completes.
ReplyDone(t) ==
  /\ t \in Tasks
  /\ pc[t] = "reply_send"
  /\ ws[t] # "stuck"
  /\ stale' = IF ws[t] = "open" THEN [stale EXCEPT ![t] = FALSE] ELSE stale
  /\ bc' = [bc EXCEPT ![t] = NoBc]
  /\ pc' = [pc EXCEPT ![t] = "recv"]
  /\ UNCHANGED <<regVars, docVars, comments, connections, lock, sid, user, sess, cur,
                 state, ws, cursor_position, mgr, lastWrite, lastBc>>
  /\ UNCHANGED auxVars

\* ------------------------------------------------------ websocket_endpoint
\* A client opens /ws/{session_id} with a valid token: the endpoint task
\* starts and suspends in connect(), at websocket.accept().
NewTask(u, s) ==
  /\ pc' = Append(pc, "accept")
  /\ sid' = Append(sid, s)
  /\ user' = Append(user, u)
  /\ sess' = Append(sess, None)
  /\ cur' = Append(cur, NoMsg)
  /\ bc' = Append(bc, NoBc)
  /\ state' = Append(state, "none")
  /\ stale' = Append(stale, FALSE)
  /\ ws' = Append(ws, "open")
  /\ cursor_position' = Append(cursor_position, 0)
  /\ UNCHANGED <<regVars, docVars, comments, connections, lock, mgr, lastWrite, lastBc>>
  /\ UNCHANGED auxVars

Spawn(u, s) ==
  /\ Len(pc) < MaxTasks
  /\ NewTask(u, s)

\* ------------------------------------ CollaborationSession.add_connection
\* add_connection with the lock held, then connect() and the endpoint up to
\* the next await: at the cap the connection is closed (connect returns None);
\* otherwise it joins the connection set and the user index, the endpoint
\* looks the session up again (reg is the registry now) and sends the welcome.
AtCapOnlyAbove(n) == n > MaxParticipants

AtCap(n) == n >= MaxParticipants

AddNow(t, o, l, reg) ==
  /\ lock' = [lock EXCEPT ![o] = Released(Dequeue(l, t))]
  /\ IF AtCap(Len(connections[o]))
       THEN /\ state' = [state EXCEPT ![t] = "disconnecting"]
            /\ pc' = [pc EXCEPT ![t] = "reject_close"]
            /\ sess' = [sess EXCEPT ![t] = o]
            /\ UNCHANGED <<connections, user_connections, lastWrite>>
       ELSE /\ connections' = [connections EXCEPT ![o] = Append(@, t)]
            /\ lastWrite' = Write(t, t)
            /\ IF reg[sid[t]] = None
                 THEN \* session.content raises; the finally block disconnects
                      /\ state' = [state EXCEPT ![t] = "disconnecting"]
                      /\ pc' = [pc EXCEPT ![t] = "close"]
                      /\ sess' = [sess EXCEPT ![t] = o]
                      /\ UNCHANGED user_connections
                 ELSE /\ state' = [state EXCEPT ![t] = "connected"]
                      /\ user_connections' =
                           [user_connections EXCEPT ![user[t]] = Append(@, t)]
                      /\ pc' = [pc EXCEPT ![t] = "welcome_send"]
                      /\ sess' = [sess EXCEPT ![t] = reg[sid[t]]]

\* connect() from the UserConnection constructor on: add_connection runs on
\* at once when the session lock is free, and queues for it otherwise.
AddConn(t, o, reg) ==
  IF CanTake(lock[o])
    THEN AddNow(t, o, lock[o], reg)
    ELSE /\ lock' = [lock EXCEPT ![o] = Enqueue(@, t)]
         /\ state' = [state EXCEPT ![t] = "connecting"]
         /\ pc' = [pc EXCEPT ![t] = "add_wait"]
         /\ sess' = [sess EXCEPT ![t] = o]
         /\ UNCHANGED <<connections, user_connections, lastWrite>>

\* ------------------------------ WebSocketConnectionManager.create_session
\* create_session with the registry lock held: a new session object replaces
\* whatever the registry holds for the id.
CreateNow(t, l) ==
  /\ nobj < MaxObjs
  /\ nobj' = nobj + 1
  /\ sessions' = [sessions EXCEPT ![sid[t]] = nobj + 1]
  /\ mlock' = Released(Dequeue(l, t))
  /\ AddConn(t, nobj + 1, sessions')

\* ------------------------------------- WebSocketConnectionManager.connect
\* websocket.accept() completes (or raises when the client is gone): the
\* session is looked up, or created under the registry lock.
Accept(t) ==
  /\ t \in Tasks
  /\ pc[t] = "accept"
  /\ ws[t] # "stuck"
  /\ IF ws[t] = "closed"
       THEN /\ pc' = [pc EXCEPT ![t] = "done"]
            /\ UNCHANGED <<regVars, connections, lock, sess, state, lastWrite>>
       ELSE IF sessions[sid[t]] # None
         THEN /\ AddConn(t, sessions[sid[t]], sessions)
              /\ UNCHANGED <<sessions, nobj, mlock>>
       ELSE IF CanTake(mlock)
         THEN CreateNow(t, mlock)
         ELSE /\ mlock' = Enqueue(mlock, t)
              /\ pc' = [pc EXCEPT ![t] = "create_wait"]
              /\ UNCHANGED <<sessions, nobj, user_connections, connections, lock, sess,
                             state, lastWrite>>
  /\ UNCHANGED <<docVars, comments, sid, user, cur, bc, stale, ws, cursor_position, mgr,
                 lastBc>>
  /\ UNCHANGED auxVars

\* The registry lock is handed to a create_session call that waited for it.
CreateWake(t) ==
  /\ t \in Tasks
  /\ pc[t] = "create_wait"
  /\ IsNext(mlock, t)
  /\ CreateNow(t, mlock)
  /\ UNCHANGED <<docVars, comments, sid, user, cur, bc, stale, ws, cursor_position, mgr,
                 lastBc>>
  /\ UNCHANGED auxVars

\* The session lock is handed to an add_connection call that waited for it.
AddWake(t) ==
  /\ t \in Tasks
  /\ pc[t] = "add_wait"
  /\ IsNext(lock[sess[t]], t)
  /\ AddNow(t, sess[t], lock[sess[t]], sessions)
  /\ UNCHANGED <<sessions, nobj, mlock, docVars, comments, sid, user, cur, bc, stale, ws,
                 cursor_position, mgr, lastBc>>
  /\ UNCHANGED auxVars

\* connection.close() of a rejected connection completes; connect returns
\* None and the endpoint returns.
RejectClosed(t) ==
  /\ t \in Tasks
  /\ pc[t] = "reject_close"
  /\ state' = [state EXCEPT ![t] = "disconnected"]
  /\ ws' = [ws EXCEPT ![t] = "closed"]
  /\ pc' = [pc EXCEPT ![t] = "rejected"]
  /\ UNCHANGED <<regVars, docVars, comments, connections, lock, sid, user, sess, cur, bc,
                 stale, cursor_position, mgr, lastWrite, lastBc>>
  /\ UNCHANGED auxVars

\* The welcome message's send completes; the join is broadcast to the others.
WelcomeDone(t) ==
  /\ t \in Tasks
  /\ pc[t] = "welcome_send"
  /\ ws[t] # "stuck"
  /\ stale' = IF ws[t] = "open" THEN [stale EXCEPT ![t] = FALSE] ELSE stale
  /\ StartBroadcast(t, sess[t], lock[sess[t]],
                    OutMsg("presence", user[t], 1, NoOp, "user_joined"),
                    t, "recv", 0, stale', lastWrite)
  /\ UNCHANGED <<regVars, docVars, comments, sid, user, sess, cur, state, ws,
                 cursor_position, mgr>>
  /\ UNCHANGED auxVars

\* ---------------------------------- WebSocketConnectionManager.disconnect
\* CollaborationSession.remove_connection with the lock held, then
\* disconnect() up to the await in connection.close(): the connection leaves
\* the user index and its state becomes DISCONNECTING.
RemoveNow(t, o, l, st) ==
  /\ connections' = [connections EXCEPT ![o] = Without(@, t)]
  /\ lock' = [lock EXCEPT ![o] = Released(Dequeue(l, t))]
  /\ lastWrite' = IF t \in Range(connections[o]) THEN Write(t, t)
                  ELSE lastWrite
  /\ user_connections' = [user_connections EXCEPT ![user[t]] = Without(@, t)]
  /\ state' = [st EXCEPT ![t] = "disconnecting"]
  /\ pc' = [pc EXCEPT ![t] = "close"]

\* The finally block of the endpoint: disconnect(connection).  The session is
\* looked up in the registry by the connection's session id.
Disconnect(t, st) ==
  LET o == sessions[sid[t]]
  IN IF o = None
       THEN /\ user_connections' = [user_connections EXCEPT ![user[t]] = Without(@, t)]
            /\ state' = [st EXCEPT ![t] = "disconnecting"]
            /\ pc' = [pc EXCEPT ![t] = "close"]
            /\ UNCHANGED <<connections, lock, lastWrite, sess>>
       ELSE IF CanTake(lock[o])
         THEN /\ RemoveNow(t, o, lock[o], st)
              /\ sess' = [sess EXCEPT ![t] = o]
         ELSE /\ lock' = [lock EXCEPT ![o] = Enqueue(@, t)]
              /\ pc' = [pc EXCEPT ![t] = "remove_wait"]
              /\ sess' = [sess EXCEPT ![t] = o]
              /\ state' = st
              /\ UNCHANGED <<connections, lastWrite, user_connections>>

\* receive_message on a closed transport: WebSocketDisconnect sets the state
\* to DISCONNECTED and returns None; the loop ends and the endpoint disconnects.
RecvClosed(t) ==
  /\ t \in Tasks
  /\ pc[t] = "recv"
  /\ ws[t] = "closed"
  /\ Disconnect(t, [state EXCEPT ![t] = "disconnected"])
  /\ UNCHANGED <<sessions, nobj, mlock, docVars, comments, sid, user, cur, bc, stale, ws,
                 cursor_position, mgr, lastBc>>
  /\ UNCHANGED auxVars

\* receive_message on a message that is not a message envelope: text that is
\* not JSON makes receive_json raise (isjson false), JSON without the
\* envelope's fields makes WebSocketMessage(**data) raise after last_activity
\* was set.  Either exception is caught, None is returned, the loop ends and
\* the endpoint disconnects; the state is not touched.
RecvMalformed(t, isjson) ==
  /\ t \in Tasks
  /\ pc[t] = "recv"
  /\ ws[t] = "open"
  /\ stale' = [stale EXCEPT ![t] = IF isjson THEN FALSE ELSE @]
  /\ Disconnect(t, state)
  /\ UNCHANGED <<sessions, nobj, mlock, docVars, comments, sid, user, cur, bc, ws,
                 cursor_position, mgr, lastBc>>
  /\ UNCHANGED auxVars

\* The session lock is handed to a remove_connection call of disconnect().
RemoveWake(t) ==
  /\ t \in Tasks
  /\ pc[t] = "remove_wait"
  /\ IsNext(lock[sess[t]], t)
  /\ RemoveNow(t, sess[t], lock[sess[t]], state)
  /\ UNCHANGED <<sessions, nobj, mlock, docVars, comments, sid, user, sess, cur, bc,
                 stale, ws, cursor_position, mgr, lastBc>>
  /\ UNCHANGED auxVars

\* UserConnection.close completes: the state is DISCONNECTED.  The endpoint
\* looks the session up once more and broadcasts the leave to it.
CloseDone(t) ==
  /\ t \in Tasks
  /\ pc[t] = "close"
  /\ state' = [state EXCEPT ![t] = "disconnected"]
  /\ ws' = [ws EXCEPT ![t] = "closed"]
  /\ LET o == sessions[sid[t]]
     IN IF o = None
          THEN /\ pc' = [pc EXCEPT ![t] = "done"]
               /\ UNCHANGED <<connections, lock, bc, sess, lastWrite, lastBc>>
          ELSE /\ sess' = [sess EXCEPT ![t] = o]
               /\ StartBroadcast(t, o, lock[o],
                                 OutMsg("presence", user[t], 1, NoOp, "user_left"),
                                 None, "done", 0, stale, lastWrite)
  /\ left' = IF sessions[sid[t]] = None THEN left ELSE left \cup {t}
  /\ UNCHANGED <<regVars, docVars, comments, sid, user, cur, stale, cursor_position, mgr>>
  /\ UNCHANGED <<secVars, lastResolve>>

\* ------------------------------------------------------------ environment
\* The client closes its side of the transport, or the transport fails.
ClientClose(t) ==
  /\ t \in Tasks
  /\ ws[t] = "open"
  /\ pc[t] \notin {"done", "rejected"}
  /\ ws' = [ws EXCEPT ![t] = "closed"]
  /\ UNCHANGED <<regVars, docVars, comments, connections, lock, pc, sid, user, sess, cur,
                 bc, state, stale, cursor_position, mgr, lastWrite, lastBc>>
  /\ UNCHANGED auxVars

\* The client stops reading: a send to it does not complete any more.
ClientStall(t) ==
  /\ t \in Tasks
  /\ ws[t] = "open"
  /\ pc[t] = "recv"
  /\ ws' = [ws EXCEPT ![t] = "stuck"]
  /\ UNCHANGED <<regVars, docVars, comments, connections, lock, pc, sid, user, sess, cur,
                 bc, state, stale, cursor_position, mgr, lastWrite, lastBc>>
  /\ UNCHANGED auxVars

\* Time passes: the timeout has gone by since the connection's last activity.
Tick(t) ==
  /\ t \in Tasks
  /\ state[t] = "connected"
  /\ ~stale[t]
  /\ stale' = [stale EXCEPT ![t] = TRUE]
  /\ UNCHANGED <<regVars, docVars, comments, connections, lock, pc, sid, user, sess, cur,
                 bc, state, ws, cursor_position, mgr, lastWrite, lastBc>>
  /\ UNCHANGED auxVars

\* ------------------------------ WebSocketConnectionManager.delete_session
\* The loop of delete_session over session.connections.values(): the next
\* connection is the first one of the dict the loop has not passed.  The dict
\* iterator raises RuntimeError when the dict's size has changed.
DeleteLoop(d, l) ==
  LET o == d.obj
      rest == SelectSeq(connections[o], LAMBDA c : c \notin d.passed)
  IN IF Len(connections[o]) # d.n
       THEN \* RuntimeError leaves the async with block: the session stays
            /\ mgr' = [mgr EXCEPT !.del = IdleDel]
            /\ mlock' = Released(Dequeue(l, Deleter))
            /\ state' = state
            /\ UNCHANGED sessions
     ELSE IF rest = <<>>
       THEN /\ sessions' = [sessions EXCEPT ![d.sid] = None]
            /\ mgr' = [mgr EXCEPT !.del = IdleDel]
            /\ mlock' = Released(Dequeue(l, Deleter))
            /\ state' = state
     ELSE /\ state' = [state EXCEPT ![Head(rest)] = "disconnecting"]
          /\ mgr' = [mgr EXCEPT !.del = [d EXCEPT !.pc = "closing", !.at = Head(rest),
                                                  !.passed = @ \cup {Head(rest)}]]
          /\ mlock' = Held(l, Deleter)
          /\ UNCHANGED sessions

\* delete_session with the registry lock held, up to its first await.
DeleteBody(s, l) ==
  IF sessions[s] = None
    THEN /\ mgr' = [mgr EXCEPT !.del = IdleDel]
         /\ mlock' = Released(Dequeue(l, Deleter))
         /\ UNCHANGED <<sessions, state>>
    ELSE DeleteLoop([IdleDel EXCEPT !.sid = s, !.obj = sessions[s],
                                    !.n = Len(connections[sessions[s]])], l)

\* The owner deletes a registered session through the management surface.
DeleteStart(s) ==
  /\ mgr.del.pc = "idle"
  /\ sessions[s] # None
  /\ IF CanTake(mlock)
       THEN DeleteBody(s, mlock)
       ELSE /\ mlock' = Enqueue(mlock, Deleter)
            /\ mgr' = [mgr EXCEPT !.del = [IdleDel EXCEPT !.pc = "wait", !.sid = s]]
            /\ UNCHANGED <<sessions, state>>
  /\ UNCHANGED <<nobj, user_connections, docVars, comments, connections, lock, pc, sid,
                 user, sess, cur, bc, stale, ws, cursor_position, lastWrite, lastBc>>
  /\ UNCHANGED auxVars

\* The registry lock is handed to a delete_session call that waited for it.
DeleteWake ==
  /\ mgr.del.pc = "wait"
  /\ IsNext(mlock, Deleter)
  /\ DeleteBody(mgr.del.sid, mlock)
  /\ UNCHANGED <<nobj, user_connections, docVars, comments, connections, lock, pc, sid,
                 user, sess, cur, bc, stale, ws, cursor_position, lastWrite, lastBc>>
  /\ UNCHANGED auxVars

\* connection.close() inside delete_session completes: that connection is
\* DISCONNECTED, and the loop goes on.
DeleteCloseDone ==
  /\ mgr.del.pc = "closing"
  /\ ws' = [ws EXCEPT ![mgr.del.at] = "closed"]
  /\ LET d == mgr.del
         o == d.obj
         rest == SelectSeq(connections[o], LAMBDA c : c \notin d.passed)
     IN IF Len(connections[o]) = d.n /\ rest # <<>>
          THEN /\ state' = [state EXCEPT ![d.at] = "disconnected",
                                         ![Head(rest)] = "disconnecting"]
               /\ mgr' = [mgr EXCEPT !.del = [d EXCEPT !.at = Head(rest),
                                                       !.passed = @ \cup {Head(rest)}]]
               /\ UNCHANGED <<sessions, mlock>>
          ELSE /\ state' = [state EXCEPT ![d.at] = "disconnected"]
               /\ mgr' = [mgr EXCEPT !.del = IdleDel]
               /\ mlock' = Released(mlock)
               /\ sessions' = IF Len(connections[o]) = d.n
                                THEN [sessions EXCEPT ![d.sid] = None] ELSE sessions
  /\ UNCHANGED <<nobj, user_connections, docVars, comments, connections, lock, pc, sid,
                 user, sess, cur, bc, stale, cursor_position, lastWrite, lastBc>>
  /\ UNCHANGED auxVars

\* ---------------- WebSocketConnectionManager.cleanup_inactive_connections
\* sessions.values(): the registered session objects.
RECURSIVE SortedSeq(_)
SortedSeq(S) == IF S = {} THEN <<>> ELSE <<Min(S)>> \o SortedSeq(S \ {Min(S)})

RegisteredObjs == SortedSeq({sessions[s] : s \in SessionIds} \ {None})

\* The ids of the connections of session object o that fail is_active.
InactiveOf(o, cons) == SelectSeq(cons[o], LAMBDA c : ~is_active(state, stale, c))

\* The sweep from its current position until remove_connection has to wait
\* for a session lock (blocked) or every session is done.
RECURSIVE SweepRun(_, _, _, _)
SweepRun(objs, inact, cons, lk) ==
  IF objs = <<>>
    THEN [objs |-> <<>>, inactive |-> <<>>, cons |-> cons, blocked |-> FALSE]
  ELSE IF inact = <<>>
    THEN IF Tail(objs) = <<>>
           THEN [objs |-> <<>>, inactive |-> <<>>, cons |-> cons, blocked |-> FALSE]
           ELSE SweepRun(Tail(objs), InactiveOf(Head(Tail(objs)), cons), cons, lk)
  ELSE IF CanTake(lk[Head(objs)])
    THEN SweepRun(objs, Tail(inact),
                  [cons EXCEPT ![Head(objs)] = Without(@, Head(inact))], lk)
  ELSE [objs |-> objs, inactive |-> inact, cons |-> cons, blocked |-> TRUE]

\* The sweep goes on with the registry lock held: r is where it gets to.
SweepTo(r, l, lk) ==
  /\ connections' = r.cons
  /\ lastWrite' = IF r.cons # connections THEN Write(Sweeper, Sweeper)
                  ELSE lastWrite
  /\ IF r.blocked
       THEN /\ lock' = [lk EXCEPT ![Head(r.objs)] = Enqueue(@, Sweeper)]
            /\ mgr' = [mgr EXCEPT !.sweep = [pc |-> "remove_wait", objs |-> r.objs,
                                             inactive |-> r.inactive]]
            /\ mlock' = Held(l, Sweeper)
       ELSE /\ lock' = lk
            /\ mgr' = [mgr EXCEPT !.sweep = IdleSweep]
            /\ mlock' = Released(Dequeue(l, Sweeper))

SweepBody(l) ==
  LET objs == RegisteredObjs
  IN SweepTo(SweepRun(objs, IF objs = <<>> THEN <<>> ELSE InactiveOf(Head(objs), connections),
                      connections, lock), l, lock)

\* The idle sweep is triggered.
SweepStart ==
  /\ mgr.sweep.pc = "idle"
  /\ IF CanTake(mlock)
       THEN SweepBody(mlock)
       ELSE /\ mlock' = Enqueue(mlock, Sweeper)
            /\ mgr' = [mgr EXCEPT !.sweep = [IdleSweep EXCEPT !.pc = "wait"]]
            /\ UNCHANGED <<connections, lock, lastWrite>>
  /\ UNCHANGED <<sessions, nobj, user_connections, docVars, comments, pc, sid, user, sess,
                 cur, bc, connVars, lastBc>>
  /\ UNCHANGED auxVars

\* The registry lock is handed to the sweep.
SweepWake ==
  /\ mgr.sweep.pc = "wait"
  /\ IsNext(mlock, Sweeper)
  /\ SweepBody(mlock)
  /\ UNCHANGED <<sessions, nobj, user_connections, docVars, comments, pc, sid, user, sess,
                 cur, bc, connVars, lastBc>>
  /\ UNCHANGED auxVars

\* The session lock is handed to the sweep's remove_connection call.
SweepRemoveWake ==
  /\ mgr.sweep.pc = "remove_wait"
  /\ LET o == Head(mgr.sweep.objs)
         c == Head(mgr.sweep.inactive)
         lk == [lock EXCEPT ![o] = Dequeue(@, Sweeper)]
     IN /\ IsNext(lock[o], Sweeper)
        /\ SweepTo(SweepRun(mgr.sweep.objs, Tail(mgr.sweep.inactive),
                            [connections EXCEPT ![o] = Without(@, c)], lk),
                   mlock, lk)
  /\ UNCHANGED <<sessions, nobj, user_connections, docVars, comments, pc, sid, user, sess,
                 cur, bc, connVars, lastBc>>
  /\ UNCHANGED auxVars

\* ------------------------------------------ RateLimiter.check_rate_limit
MinuteTicks == 60 * SecondTicks

\* [ts for ts in timestamps if ts > bound]
After(timestamps, bound) == SelectSeq(timestamps, LAMBDA ts : ts > bound)

OverMinute(n) == n >= max_messages_per_minute

OverSecondStrict(n) == n > max_messages_per_second

OverSecond(n) == n >= max_messages_per_second

\* check_rate_limit(user_id, session_id): timestamps older than a minute are
\* dropped; the call is refused at the per-minute or the per-second ceiling,
\* and recorded otherwise.
check_rate_limit(u, s) ==
  LET key == <<u, s>>
      timestamps == After(message_counts[key], now - MinuteTicks)
      recent_messages == Len(After(timestamps, now - SecondTicks))
      ok == ~OverMinute(Len(timestamps)) /\ ~OverSecond(recent_messages)
  IN /\ message_counts' =
          [message_counts EXCEPT ![key] = IF ok THEN Append(timestamps, now) ELSE timestamps]
     /\ granted' = [granted EXCEPT ![key] = IF ok THEN Append(@, now) ELSE @]
     /\ lastCall' = [key |-> key, at |-> now, allowed |-> ok]
     /\ UNCHANGED now

\* A caller checks the rate of a message of key (u, s).
CheckRate(u, s) ==
  /\ (<<u, s>> # <<"u1", "s1">>) => Len(granted[<<u, s>>]) < MaxOtherCalls
  /\ check_rate_limit(u, s)
  /\ UNCHANGED <<regVars, docVars, comments, connections, lock, pc, sid, user, sess, cur,
                 bc, connVars, mgr, lastWrite, lastBc, left, lastResolve>>

\* Time passes.
ClockTick ==
  /\ now < MaxTime
  /\ now' = now + 1
  /\ UNCHANGED <<regVars, docVars, comments, connections, lock, pc, sid, user, sess, cur,
                 bc, connVars, mgr, lastWrite, lastBc, left, lastResolve, message_counts,
                 granted, lastCall>>

\* ------------------------------------------------------------------ inputs
Chars == {"a", "b", "c"}

Positions == {-1, 0, 1, 5}

\* The operations of the edit messages a client sends when the session is
\* driven by one connection: in and out of bounds, an operation type that is
\* neither insert nor delete, and an ill-typed one.
RichOps ==
  {Op("insert", p, c, 0) : p \in Positions, c \in {<<"a">>, <<"b", "c">>}}
  \cup {Op("delete", p, <<>>, n) : p \in Positions, n \in {1, 3}}
  \cup {Op("transform", 0, <<>>, 0), BadOp}

\* The operations of the edit messages of the concurrent specifications.
SmallOps == {Op("insert", 0, <<"a", "b">>, 0), Op("delete", 0, <<>>, 2)}

\* ------------------------------------------------------------------- steps
\* The handling of edit and undo messages by task t.
EditStep(t, ops) ==
  \/ \E op \in ops : RecvEdit(t, op)
  \/ RecvUndo(t)
  \/ AckDone(t)
  \/ BcastSendDone(t)

\* The steps of a task that had to wait for the session lock.
WakeStep(t) ==
  \/ ApplyWake(t)
  \/ BcastWake(t)

\* The handling of the other message types by task t.
OtherStep(t, kinds) ==
  \/ RecvPresence(t, "cursor", 1)
  \/ \E k \in kinds : RecvComment(t, k, 1)
  \/ CommentWake(t)
  \/ RecvRedo(t)
  \/ \E ty \in {"sync", "heartbeat"} : RecvQuery(t, ty)
  \/ ReplyDone(t)

\* connect() and disconnect() of task t.
ConnStep(t) ==
  \/ Accept(t)
  \/ CreateWake(t)
  \/ AddWake(t)
  \/ WelcomeDone(t)
  \/ RecvClosed(t)
  \/ \E isjson \in BOOLEAN : RecvMalformed(t, isjson)
  \/ RemoveWake(t)
  \/ CloseDone(t)

MgrStep ==
  \/ \E s \in SessionIds : DeleteStart(s)
  \/ DeleteWake
  \/ DeleteCloseDone
  \/ SweepStart
  \/ SweepWake
  \/ SweepRemoveWake

\* ---------------------------------------------------------- specifications
\* The state after the given users have connected to session "s1", one after
\* the other, and every welcome and join broadcast has been delivered.
Joined(us) ==
  LET n == Len(us)
  IN /\ sessions = [s \in SessionIds |-> IF s = "s1" THEN 1 ELSE None]
     /\ nobj = 1
     /\ user_connections = [u \in Users |-> SelectSeq([i \in 1..n |-> i], LAMBDA i : us[i] = u)]
     /\ mlock = NoLock
     /\ content = [o \in Objs |-> <<>>]
     /\ version = [o \in Objs |-> 0]
     /\ edit_history = [o \in Objs |-> <<>>]
     /\ comments = [o \in Objs |-> <<>>]
     /\ connections = [o \in Objs |-> IF o = 1 THEN [i \in 1..n |-> i] ELSE <<>>]
     /\ lock = [o \in Objs |-> NoLock]
     /\ pc = [i \in 1..n |-> "recv"]
     /\ sid = [i \in 1..n |-> "s1"]
     /\ user = us
     /\ sess = [i \in 1..n |-> 1]
     /\ cur = [i \in 1..n |-> NoMsg]
     /\ bc = [i \in 1..n |-> NoBc]
     /\ state = [i \in 1..n |-> "connected"]
     /\ stale = [i \in 1..n |-> FALSE]
     /\ ws = [i \in 1..n |-> "open"]
     /\ cursor_position = [i \in 1..n |-> 0]
     /\ mgr = [del |-> IdleDel, sweep |-> IdleSweep]
     /\ applied = [o \in Objs |-> <<>>]
     /\ undos = [o \in Objs |-> 0]
     /\ lastWrite = Write(n, n)
     /\ lastBc = NoBc
     /\ lastMut = [o \in Objs |-> NoMut]
     /\ message_counts = [k \in Keys |-> <<>>]
     /\ now = 0
     /\ granted = [k \in Keys |-> <<>>]
     /\ lastCall = NoCall
     /\ left = {}
     /\ lastResolve = NoResolve

\* The whole system: endpoints, management calls and the environment.
Next ==
  \/ \E u \in Users, s \in SessionIds : Spawn(u, s)
  \/ \E t \in Tasks : ConnStep(t) \/ RejectClosed(t)
  \/ \E t \in Tasks : EditStep(t, SmallOps) \/ WakeStep(t) \/ OtherStep(t, {"add", "reply", "resolve"})
  \/ \E t \in Tasks : ClientClose(t) \/ ClientStall(t) \/ Tick(t)
  \/ MgrStep

Spec == Init /\ [][Next]_vars

\* One connection drives the session alone, with edits in and out of bounds.
InitSolo == Joined(<<"u1">>)

NextSolo == EditStep(1, RichOps)

SpecSolo == InitSolo /\ [][NextSolo]_vars

\* Three connections of two users share one session: 1 and 2 edit and undo
\* concurrently, 3 only listens, goes idle or loses its transport.
InitCollab == Joined(<<"u1", "u2", "u1">>)

Editors == {1, 2}

Listeners == {3}

NextCollab ==
  \/ \E t \in Editors : EditStep(t, SmallOps \cup {BadOp}) \/ WakeStep(t)
  \/ \E t \in Listeners : Tick(t) \/ ClientClose(t)

SpecCollab == InitCollab /\ [][NextCollab]_vars

\* Two connections share one session: 1 sends messages of every type, 2 edits
\* and undoes.
InitMsgs == Joined(<<"u1", "u2">>)

NextMsgs ==
  \/ EditStep(1, SmallOps) \/ WakeStep(1) \/ OtherStep(1, {"add", "resolve"})
  \/ EditStep(2, {Op("insert", 0, <<"a", "b">>, 0)}) \/ WakeStep(2)

SpecMsgs == InitMsgs /\ [][NextMsgs]_vars
\* Connections 1 and 2 edit; the client of connection 3 may stop reading.
\* Every send to a client that reads completes, and a task the lock is handed
\* to runs: the event loop schedules every ready task.
NextStuck ==
  \/ \E t \in Editors : EditStep(t, {Op("insert", 0, <<"a", "b">>, 0)}) \/ WakeStep(t)
  \/ \E t \in Listeners : ClientStall(t)

Progress(t) == AckDone(t) \/ BcastSendDone(t) \/ WakeStep(t)

SpecStuck ==
  InitCollab /\ [][NextStuck]_vars /\ \A t \in Editors : WF_vars(Progress(t))

\* Two connections of two users have joined one session.  Their clients go
\* idle or close, the endpoints disconnect and broadcast the leave, and the
\* management calls (delete_session, cleanup_inactive_connections) run.
InitReg == Joined(<<"u1", "u2">>)

RegTasks == {1, 2}

NextReg ==
  \/ \E t \in RegTasks : ClientClose(t) \/ Tick(t)
  \/ \E t \in RegTasks : RecvClosed(t) \/ RemoveWake(t) \/ CloseDone(t)
  \/ \E t \in RegTasks : BcastSendDone(t) \/ BcastWake(t)
  \/ MgrStep

SpecReg == InitReg /\ [][NextReg]_vars

\* A session CapHeadroom short of the cap, users alternating.  Further
\* connection attempts arrive until ExtraConnects more than the cap have been
\* made; at most MaxInFlight of them are inside connect() at a time, and a
\* client may give up before it is accepted.
InitCap ==
  Joined([i \in 1..(MaxParticipants - CapHeadroom) |-> IF i % 2 = 1 THEN "u1" ELSE "u2"])

InFlight == {t \in Tasks : pc[t] \in {"accept", "create_wait", "add_wait", "reject_close"}}

CapTasks == 1..(MaxParticipants + ExtraConnects)

SpawnCap ==
  /\ Len(pc) < MaxParticipants + ExtraConnects
  /\ Cardinality(InFlight) < MaxInFlight
  /\ NewTask(IF Len(pc) % 2 = 0 THEN "u1" ELSE "u2", "s1")

\* The client goes away while websocket.accept() is pending.
GiveUp(t) == t \in Tasks /\ pc[t] = "accept" /\ ClientClose(t)

NextCap ==
  \/ SpawnCap
  \/ \E t \in CapTasks : Accept(t) \/ RejectClosed(t) \/ GiveUp(t)

SpecCap == InitCap /\ [][NextCap]_vars

\* SecurityChecker.check_injection_attack on the text of a message.  A
\* dangerous pattern is one element of a content sequence.
DangerousPatterns ==
  {"javascript:", "<script", "onclick=", "onerror=", "eval(", "exec(", "__import__"}

check_injection_attack(text) == \A i \in 1..Len(text) : text[i] \notin DangerousPatterns

\* WebSocketAuth.get_session_info: active_sessions is filled only by
\* register_connection, which the endpoint never reaches, so every session id
\* gets the default record.
get_session_info(s) ==
  [session_id |-> s, owner_id |-> "owner-1", participants |-> {}, is_public |-> FALSE]

\* WebSocketAuth.check_permission(user_id, session_id, action)
check_permission(u, s, action) ==
  LET session_info == get_session_info(s)
  IN \/ session_info.owner_id = u
     \/ u \in session_info.participants /\ action \in {"read", "write", "comment"}
     \/ session_info.is_public /\ action = "read"

\* Two connections of one session; their clients send edits, some of them
\* carrying a dangerous pattern.  The receive loop of the endpoint hands every
\* message it receives to process_message.
GuardOps == {Op("insert", 0, <<"a">>, 0), Op("insert", 0, <<"<script">>, 0),
             Op("delete", 0, <<>>, 1)}

NextGuard ==
  \/ \E t \in RegTasks : EditStep(t, GuardOps) \/ WakeStep(t)
  \/ \E t \in RegTasks : (\E isjson \in BOOLEAN : RecvMalformed(t, isjson))
                           \/ RemoveWake(t) \/ CloseDone(t)

SpecGuard == InitReg /\ [][NextGuard]_vars

\* Two sessions.  Connections 1 and 2 have joined "s1"; the client of 2 may
\* stop reading, 1 edits, both may go idle, and the idle sweep runs.  A third
\* client connects to "s2", which does not exist yet.  Every send to a client
\* that reads completes and every task a lock is handed to runs.
CrossTask == 3

NextCross ==
  \/ EditStep(1, {Op("insert", 0, <<"a">>, 0)}) \/ WakeStep(1)
  \/ ClientStall(2)
  \/ \E t \in RegTasks : Tick(t)
  \/ SweepStart \/ SweepWake \/ SweepRemoveWake
  \/ Spawn("u1", "s2")
  \/ Accept(CrossTask) \/ CreateWake(CrossTask) \/ WelcomeDone(CrossTask)

SpecCross ==
  /\ InitReg /\ [][NextCross]_vars
  /\ WF_vars(Progress(1))
  /\ WF_vars(SweepWake \/ SweepRemoveWake)
  /\ WF_vars(Accept(CrossTask) \/ CreateWake(CrossTask) \/ WelcomeDone(CrossTask))

\* Two connections of one session end their participation: the client closes
\* or the transport fails, or the connection goes idle and the sweep runs.
\* The event loop runs every endpoint task that can go on, and the sweep.
NextLeave ==
  \/ \E t \in RegTasks : ClientClose(t) \/ Tick(t)
  \/ \E t \in RegTasks : RecvClosed(t) \/ RemoveWake(t) \/ CloseDone(t)
  \/ \E t \in RegTasks : BcastSendDone(t) \/ BcastWake(t)
  \/ SweepStart \/ SweepRemoveWake

EndpointStep(t) ==
  RecvClosed(t) \/ RemoveWake(t) \/ CloseDone(t) \/ BcastSendDone(t) \/ BcastWake(t)

SpecLeave ==
  /\ InitReg /\ [][NextLeave]_vars
  /\ \A t \in RegTasks : WF_vars(EndpointStep(t))
  /\ WF_vars(SweepRemoveWake)

\* Two connections comment on one session: both add, reply to and resolve
\* comments, also comments that are resolved already.
NextResolve ==
  \E t \in RegTasks :
    \/ \E k \in {"add", "reply", "resolve"} : RecvComment(t, k, 1)
    \/ CommentWake(t) \/ BcastSendDone(t) \/ BcastWake(t)

SpecResolve == InitReg /\ [][NextResolve]_vars

\* The rate limiter alone: calls for two keys while time passes.
NextRate ==
  \/ \E u \in Users : CheckRate(u, "s1")
  \/ ClockTick

SpecRate == Init /\ [][NextRate]_vars

\* ================================================================ properties
\* The connections of InitCollab, as a constant set.
CollabTasks == Editors \cup Listeners

\* An insert or delete whose position or length lies outside content c.
OutOfBounds(c, op) == op.typed /\ op.type \in {"insert", "delete"} /\ ~InBounds(c, op)

\* How often x occurs in s.
Count(s, x) == Len(SelectSeq(s, LAMBDA e : e = x))

\* The edit broadcasts under way.
EditBroadcasts ==
  {bc[t] : t \in {u \in Tasks : pc[u] \in {"bcast_wait", "bcast_send"} /\ bc[u].msg.type = "edit"}}

\* C1 as stated: at every moment, whatever messages the session has processed
\* (edits, undos, redos, comments, presence, sync, heartbeat), each session's
\* version equals the number of entries in its edit history.
C1_VersionEqualsHistoryLength ==
  \A o \in Objs : version[o] = Len(edit_history[o])

\* C1, amended: at every moment each session's version equals the number of
\* entries in its edit history plus twice the number of undos it has applied
\* (an undo pops one entry and still increments the version); messages of the
\* other types change neither.
C1_VersionCountsUndosTwice ==
  \A o \in Objs : version[o] = Len(edit_history[o]) + 2 * undos[o]

\* A session to which an undo has been applied holds an edit and a comment.
C1_Witness ==
  \E o \in Objs : undos[o] >= 1 /\ edit_history[o] # <<>> /\ comments[o] # <<>>

\* C2: while a session has applied no undo, after N apply_edit calls that
\* returned success, in any interleaving, its version is N and its edit history
\* holds exactly those N messages in the order they were applied.
C2_EditsOnlyVersionIsCount ==
  \A o \in Objs :
    undos[o] = 0 => version[o] = Len(applied[o]) /\ edit_history[o] = applied[o]

\* Two edits of different users have been applied and no undo.
C2_Witness ==
  \E o \in Objs :
    /\ undos[o] = 0
    /\ Len(applied[o]) >= 2
    /\ applied[o][1].user_id # applied[o][2].user_id

\* C3 as stated: apply_edit never applies an insert or delete whose position or
\* length lies outside the current content (it returns failure and leaves
\* content, version and history unchanged), so the last applied edit is never
\* out of bounds for the content it was applied to.
C3_OutOfBoundsRejected ==
  \A o \in Objs :
    lastMut[o].kind = "edit" => ~OutOfBounds(lastMut[o].c0, lastMut[o].op)

\* C4: an edit broadcast is sent zero times to the connection the edit came
\* from and never twice to a connection; once it has finished, every other
\* connection that was in the session's connection set when the broadcast
\* copied it got the message exactly once, unless the loop found it not live
\* (disconnected or idle) when it reached it.
C4_EditBroadcastOncePerPeer ==
  /\ \A b \in EditBroadcasts \cup {lastBc} :
       /\ b.exclude \notin Range(b.sent)
       /\ \A c \in Range(b.over) : Count(b.sent, c) <= 1
       /\ Range(b.sent) \cup Range(b.skipped) \subseteq Range(b.over)
       /\ Range(b.sent) \cap Range(b.skipped) = {}
  /\ lastBc.msg.type = "edit" =>
       \A c \in Range(lastBc.over) \ {lastBc.exclude} :
         Count(lastBc.sent, c) = (IF c \in Range(lastBc.skipped) THEN 0 ELSE 1)

\* An edit broadcast over three connections has finished: both peers got it.
C4_Witness ==
  /\ lastBc.msg.type = "edit"
  /\ Len(lastBc.over) = 3
  /\ Len(lastBc.sent) = 2

\* C5 as stated: the edit message broadcast for an applied edit carries the
\* version that edit produced, also when other edits are applied while the
\* acknowledgement is being sent.
C5_BroadcastCarriesOwnVersion ==
  \A b \in EditBroadcasts \cup {lastBc} :
    b.msg.type = "edit" => b.msg.version = b.made

\* C6: an insert at a position within 0..len(content), immediately followed by
\* an undo, restores the content from before the insert; the version is v + 1
\* after the insert and v + 2 after the undo.
C6_InsertThenUndoRestores ==
  \A o \in Objs :
    /\ lastMut[o].kind = "insert" => version[o] = lastMut[o].v0 + 1
    /\ lastMut[o].kind = "undone_insert" =>
         content[o] = lastMut[o].c0 /\ version[o] = lastMut[o].v0 + 2

\* An insert into the middle of non-empty content has been undone.
C6_Witness ==
  \E o \in Objs :
    /\ lastMut[o].kind = "undone_insert"
    /\ lastMut[o].op.position >= 1
    /\ lastMut[o].op.position < Len(lastMut[o].c0)

\* C7 as stated: every modification of a session's content, version, edit
\* history, comment list or connection set is made by a task that holds that
\* session's lock at that moment.
C7_WritesHoldSessionLock ==
  lastWrite.task = lastWrite.holder

\* C8 as stated: a send to one connection that never completes does not keep
\* the other connections' edits from being applied: an edit that waits for the
\* session lock is eventually applied.
C8_EditsProceedDespiteStuckSend ==
  \A t \in Editors : (pc[t] = "apply_wait") ~> (pc[t] # "apply_wait")

\* C9 as stated: a connection that has left its session's connection set (by
\* disconnecting, by a broadcast that found it dead, by the cleanup sweep or by
\* the deletion of its session) has also left its user's connection list:
\* every connection in the user index is in the connection set of a registered
\* session.
C9_UserIndexWithinLiveSessions ==
  \A u \in Users : \A c \in Range(user_connections[u]) :
    \E s \in SessionIds :
      sessions[s] # None /\ c \in Range(connections[sessions[s]])

\* A connect() that add_connection turned away.
Rejected(t) == pc[t] \in {"reject_close", "rejected"}

\* C10: a session's connection set never holds more than MaxParticipants
\* (100) connections.  A connect() that finds the set at the cap is turned
\* away: the set stays as it was, at the cap, and the connection is in neither
\* the set nor the user index.
C10_CapNeverExceeded ==
  /\ \A o \in Objs : Len(connections[o]) <= MaxParticipants
  /\ \A t \in Tasks :
       Rejected(t) =>
         /\ Len(connections[sess[t]]) = MaxParticipants
         /\ t \notin Range(connections[sess[t]])
         /\ \A u \in Users : t \notin Range(user_connections[u])

\* The set is at the cap and a further connect() has been turned away.
C10_Witness ==
  \E t \in Tasks :
    /\ pc[t] = "rejected"
    /\ Len(connections[sess[t]]) = MaxParticipants

\* The allowed calls of key k made less than a second before time at.
RecentGrants(k, at) == Len(After(granted[k], at - SecondTicks))

\* C12: with the per-second ceiling of 10 (and the per-minute ceiling not
\* reached), a check_rate_limit call of a key is allowed exactly when fewer
\* than 10 earlier calls of that key were allowed within the last second,
\* whatever calls other keys made; a rejected call is not recorded, so the
\* window of a key holds exactly its allowed calls of the last minute and never
\* more than 10 of one second.
C12_RateLimitPerSecond ==
  /\ \A k \in Keys :
       /\ After(message_counts[k], now - MinuteTicks) = After(granted[k], now - MinuteTicks)
       /\ \A i \in 1..Len(granted[k]) :
            Len(SelectSeq(granted[k],
                          LAMBDA ts : ts <= granted[k][i] /\ ts > granted[k][i] - SecondTicks))
              <= max_messages_per_second
  /\ lastCall # NoCall =>
       LET k == lastCall.key
           before == RecentGrants(k, lastCall.at) - (IF lastCall.allowed THEN 1 ELSE 0)
       IN ~OverMinute(Len(granted[k])) =>
            (lastCall.allowed <=> before < max_messages_per_second)

\* The 11th call of a key within a second has been rejected, after the same
\* key was full in an earlier second and while another key has calls recorded.
C12_Witness ==
  /\ ~lastCall.allowed
  /\ Len(granted[lastCall.key]) > max_messages_per_second
  /\ \E k \in Keys : k # lastCall.key /\ granted[k] # <<>>

\* C11 as stated: every inbound message passes the rate check, the size check,
\* the schema validation and the abuse screening before it is dispatched, and
\* a message that fails one of them is not applied: every applied edit was
\* counted by the rate limiter and carries no dangerous pattern.
C11_AppliedEditsPassedChecks ==
  \A o \in Objs : \A i \in 1..Len(applied[o]) :
    /\ granted[<<applied[o][i].user_id, "s1">>] # <<>>
    /\ check_injection_attack(applied[o][i].op.content)

\* The place of a lifecycle state in the order CONNECTING, CONNECTED,
\* DISCONNECTING, DISCONNECTED ("none": the connection object does not exist).
Rank(st) ==
  CASE st = "none" -> 0
    [] st = "connecting" -> 1
    [] st = "connected" -> 2
    [] st = "disconnecting" -> 3
    [] st = "disconnected" -> 4

\* C13 as stated: a connection's state only moves forward along CONNECTING,
\* CONNECTED, DISCONNECTING, DISCONNECTED, and DISCONNECTED is terminal: no
\* step takes a connection's state back.
C13_StateOnlyMovesForward ==
  [][\A t \in RegTasks : Rank(state'[t]) >= Rank(state[t])]_vars

\* C14 as stated: an edit message of a user for whom
\* check_permission(user, session, write) is false is not applied: every
\* applied edit comes from a user with write permission on the session.
C14_AppliedEditsHaveWritePermission ==
  \A o \in Objs : \A i \in 1..Len(applied[o]) :
    check_permission(applied[o][i].user_id, "s1", "write")

\* C15 as stated: a malformed inbound message is dropped and the connection
\* stays open: an endpoint leaves its receive loop for disconnect() only when
\* its transport is closed.
C15_LoopEndsOnlyOnTransportFailure ==
  [][\A t \in RegTasks :
       (pc[t] = "recv" /\ pc'[t] \in {"remove_wait", "close"}) => ws[t] = "closed"]_vars

\* C16 as stated: operations on one session never wait because of another
\* session: a connect() that creates session "s2" completes its
\* create_session call, whatever tasks of session "s1" and the idle sweep
\* are doing.
C16_OtherSessionCreateCompletes ==
  (Len(pc) >= CrossTask /\ pc[CrossTask] = "create_wait")
    ~> (Len(pc) >= CrossTask /\ pc[CrossTask] # "create_wait")

\* C17 as stated: a delete_session call on a registered session ends with the
\* session removed from the registry, also when connections of the session
\* disconnect or are evicted while the call is in progress.
C17_DeleteRemovesSession ==
  [][(mgr.del.pc # "idle" /\ mgr'.del.pc = "idle" /\ sessions[mgr.del.sid] # None)
       => sessions'[mgr.del.sid] = None]_vars

\* C18 as stated: after an idle sweep, every connection the sweep removed from
\* its session's connection set has had its channel closed: its state is
\* DISCONNECTED and its transport is closed when the sweep returns.
C18_SweptConnectionsAreClosed ==
  [][\A t \in RegTasks : \A o \in Objs :
       (/\ t \in Range(connections[o]) /\ t \notin Range(connections'[o])
        /\ lastWrite' = Write(Sweeper, Sweeper)
        /\ mgr'.sweep.pc = "idle")
         => (state'[t] = "disconnected" /\ ws'[t] = "closed")]_vars

\* C19 as stated: whenever a connection's participation in a session ends
\* (it is in no session's connection set any more), the participant-left
\* message of that connection is eventually broadcast.
C19_LeaveEventuallyBroadcast ==
  \A t \in RegTasks :
    (\A o \in Objs : t \notin Range(connections[o])) ~> (t \in left)

\* C20: resolving a comment is idempotent: the handling of a resolve message
\* for a comment that is resolved already leaves the comment collection, that
\* comment's replies and flag included, exactly as it was.
C20_ResolveIsIdempotent ==
  lastResolve # NoResolve => lastResolve.after = lastResolve.before

\* A resolve of a resolved comment that has a reply has been handled.
C20_Witness ==
  /\ lastResolve # NoResolve
  /\ \E i \in 1..Len(lastResolve.before) :
       /\ lastResolve.before[i].id = lastResolve.cid
       /\ lastResolve.before[i].resolved
       /\ lastResolve.before[i].replies # <<>>

\* C21 as stated: every connection receives the edit broadcasts of a session
\* in the order in which the edits were applied: an edit broadcast that
\* reaches a connection after the previous one has finished is of an edit
\* applied later (broadcasts hold the session lock, so they run one at a time).
C21_BroadcastsInApplyOrder ==
  \A t \in CollabTasks :
    (/\ pc[t] = "bcast_send" /\ bc[t].msg.type = "edit" /\ lastBc.msg.type = "edit"
     /\ Range(bc[t].sent) \cap Range(lastBc.sent) # {})
      => lastBc.made < bc[t].made

\* The text after an in-bounds insert or delete, as the operation defines it.
Splice(c, op) ==
  IF op.type = "insert"
    THEN SubSeq(c, 1, op.position) \o op.content \o SubSeq(c, op.position + 1, Len(c))
    ELSE SubSeq(c, 1, op.position) \o SubSeq(c, op.position + op.length + 1, Len(c))

\* The replay of a history on the empty string: the resulting text, and
\* whether every operation was an insert or delete within the bounds of the
\* text it was replayed on.
RECURSIVE Replay(_)
Replay(h) ==
  IF h = <<>> THEN [ok |-> TRUE, c |-> <<>>]
  ELSE LET r == Replay(SubSeq(h, 1, Len(h) - 1))
           op == h[Len(h)].op
           ok == r.ok /\ InBounds(r.c, op)
       IN [ok |-> ok, c |-> IF ok THEN Splice(r.c, op) ELSE <<>>]

\* C22: in any state reached by in-bounds insert and delete edits only (no
\* undo), from whatever connections and in whatever interleaving, the content
\* equals the replay of the edit history, in order, on the empty string.
C22_ContentIsReplayOfHistory ==
  \A o \in Objs :
    (undos[o] = 0 /\ Replay(edit_history[o]).ok)
      => content[o] = Replay(edit_history[o]).c

\* Edits of both connections, inserts and a delete, have been applied.
C22_Witness ==
  \E o \in Objs :
    /\ undos[o] = 0 /\ Replay(edit_history[o]).ok
    /\ Len(edit_history[o]) = MaxVersion
    /\ {edit_history[o][i].user_id : i \in 1..Len(edit_history[o])} = {"u1", "u2"}
    /\ \E i \in 1..Len(edit_history[o]) : edit_history[o][i].op.type = "delete"
    /\ content[o] # <<>>

\* C23 as stated: for any content c, position p and length n with 0 <= p and
\* p + n <= len(c), a successful delete of n characters at p immediately
\* followed by an undo restores the content to c.
C23_DeleteThenUndoRestores ==
  \A o \in Objs : lastMut[o].kind = "undone_delete" => content[o] = lastMut[o].c0

\* C24 as stated: when apply_edit returns failure for an edit message, at once
\* or after waiting for the lock, the sender is sent an error acknowledgement
\* (and no success acknowledgement, and nothing is broadcast).
C24_FailedEditGetsErrorAck ==
  [][\A t \in CollabTasks :
       (\/ pc[t] = "recv" /\ CanTake(lock[sess[t]]) /\ RecvEdit(t, BadOp)
        \/ pc[t] = "apply_wait" /\ ApplyRaises(cur[t].op) /\ ApplyWake(t))
         => (pc'[t] = "ack_send" /\ bc'[t].msg.type = "error")]_vars

\* The acknowledgement task t is sending is the one of its own edit: it has
\* the edit's operation id and the version the edit produced, which, while no
\* undo has been applied, is the edit's place in the order of applied edits.
AckOfOwnEdit(t) ==
  pc[t] = "ack_send" =>
    /\ bc[t].msg.type = "ack"
    /\ bc[t].msg.operation_id = cur[t].operation_id
    /\ bc[t].msg.version = bc[t].made
    /\ undos[sess[t]] = 0 =>
         /\ bc[t].msg.version \in 1..Len(applied[sess[t]])
         /\ applied[sess[t]][bc[t].msg.version] = cur[t]

\* C25: the acknowledgement sent to the sender of an applied edit carries that
\* edit's operation id and the session version the edit produced, and the
\* broadcast of the edit starts only when the acknowledgement's send is over.
C25_AckBeforeBroadcast ==
  [][\A t \in CollabTasks :
       /\ AckOfOwnEdit(t)'
       /\ (/\ pc'[t] \in {"bcast_wait", "bcast_send"} /\ bc'[t].msg.type = "edit"
           /\ pc[t] \notin {"bcast_wait", "bcast_send"})
            => (pc[t] = "ack_send" /\ bc[t].msg.type = "ack"
                /\ bc[t].msg.user_id = bc'[t].msg.user_id)]_vars

\* Two connections are sending the acknowledgements of their edits at once,
\* the second edit applied while the first acknowledgement was under way.
C25_Witness ==
  /\ pc[1] = "ack_send" /\ pc[2] = "ack_send"
  /\ bc[1].msg.version # bc[2].msg.version
  /\ lastBc.msg.type = "edit"

C27_UndoOnEmptyHistoryIsNoop ==
  [][/\ \A o \in Objs :
          lastMut'[o].kind = "undo_failed" =>
            /\ content'[o] = lastMut'[o].c0
            /\ version'[o] = lastMut'[o].v0
            /\ edit_history'[o] = <<>>
     /\ \A t \in CollabTasks :
          (edit_history[sess[t]] = <<>> /\ RecvUndo(t)) =>
            (pc'[t] = "recv" /\ bc' = bc /\ lastBc' = lastBc
             /\ UNCHANGED <<content, version, edit_history>>)]_vars

\* An undo has found the history empty after edits were made and undone.
C27_Witness ==
  \E o \in Objs :
    /\ lastMut[o].kind = "undo_failed"
    /\ lastMut[o].v0 > 0
    /\ Len(connections[o]) > 1

\* One connection has joined "s1".  delete_session("s1") runs and holds the
\* registry lock while it closes that connection.  Two more clients connect
\* to "s2", which is not registered yet, and edit once they have joined.
InitJoin == Joined(<<"u1">>)

JoinTasks == {2, 3}

NextJoin ==
  \/ \E u \in Users : Spawn(u, "s2")
  \/ DeleteStart("s1") \/ DeleteCloseDone
  \/ \E t \in JoinTasks : Accept(t) \/ CreateWake(t) \/ AddWake(t) \/ WelcomeDone(t)
  \/ \E t \in JoinTasks : EditStep(t, {Op("insert", 0, <<"a">>, 0)}) \/ WakeStep(t)

SpecJoin == InitJoin /\ [][NextJoin]_vars

\* C28: at most one session object exists per session id and every connection
\* with that id is bound to it: two connections that have joined under the
\* same session id are in the connection set of the same object, which is the
\* registered one, and it is the object their messages are applied to.
C28_OneSessionPerId ==
  \A a \in Tasks : \A b \in Tasks :
    (/\ sid[a] = sid[b]
     /\ state[a] = "connected" /\ state[b] = "connected"
     /\ pc[a] # "welcome_send" /\ pc[b] # "welcome_send")
      => /\ sess[a] = sess[b]
         /\ sess[a] = sessions[sid[a]]
         /\ a \in Range(connections[sess[a]])
         /\ b \in Range(connections[sess[a]])

\* C29: only a member of the session's connection set can change the session:
\* a message that the endpoint of a connection receives after the connection
\* was removed from the set (by the idle sweep or by the eviction at the end of
\* a broadcast) leaves the session's content, version, edit history and
\* comments unchanged.
C29_OnlyMembersChangeSession ==
  [][\A t \in Tasks :
       (/\ pc[t] = "recv"
        /\ t \notin Range(connections[sess[t]])
        /\ \/ RecvEdit(t, Op("insert", 0, <<"a">>, 0))
           \/ RecvUndo(t)
           \/ RecvComment(t, "add", 1))
         => UNCHANGED <<content, version, edit_history, comments>>]_vars

\* Two connections have joined "s1".  Connection 1 sends presence updates,
\* which are broadcast; connection 2 goes idle, and leaves when its socket is
\* closed; a third client connects to either session; delete_session and the
\* idle sweep run.  No
\* client stops reading: every send and every close completes, and the event
\* loop runs every task that a lock was handed to.
NextLocks ==
  \/ RecvPresence(1, "cursor", 1) \/ BcastWake(1) \/ BcastSendDone(1)
  \/ Tick(2)
  \/ RecvClosed(2) \/ RemoveWake(2) \/ CloseDone(2) \/ BcastWake(2) \/ BcastSendDone(2)
  \/ \E s \in SessionIds : Len(pc) < CrossTask /\ NewTask("u1", s)
  \/ Accept(CrossTask) \/ CreateWake(CrossTask) \/ AddWake(CrossTask)
  \/ WelcomeDone(CrossTask) \/ BcastWake(CrossTask) \/ BcastSendDone(CrossTask)
  \/ MgrStep

Completes(t) ==
  \/ AckDone(t) \/ BcastSendDone(t) \/ WelcomeDone(t) \/ CloseDone(t)
  \/ WakeStep(t) \/ RemoveWake(t) \/ CreateWake(t) \/ AddWake(t)

SpecLocks ==
  /\ InitReg /\ [][NextLocks]_vars
  /\ \A t \in RegTasks \cup {CrossTask} : WF_vars(Completes(t))
  /\ WF_vars(DeleteWake \/ DeleteCloseDone \/ SweepWake \/ SweepRemoveWake)

\* Whoever can ask for a lock: the endpoint tasks and the two management calls.
Requesters == RegTasks \cup {CrossTask, Deleter, Sweeper}

WaitsForRegistry(x) == x \in Range(mlock.waiters)

WaitsForSession(x) == \E o \in Objs : x \in Range(lock[o].waiters)

HoldsSession(x) == \E o \in Objs : lock[o].holder = x

\* x waits for a lock that y holds.
WaitsFor(x, y) ==
  \/ WaitsForRegistry(x) /\ mlock.holder = y
  \/ \E o \in Objs : x \in Range(lock[o].waiters) /\ lock[o].holder = y

RECURSIVE WaitChain(_, _, _)
WaitChain(x, y, n) ==
  \/ WaitsFor(x, y)
  \/ n > 0 /\ \E z \in Requesters : WaitsFor(x, z) /\ WaitChain(z, y, n - 1)

\* C30: the registry lock and the session locks never deadlock: a task that
\* holds a session lock never waits for the registry lock, no tasks wait for
\* each other's locks in a cycle, and every task that waits for a lock gets it.
C30_LocksNeverDeadlock ==
  /\ [](\A x \in Requesters :
          /\ HoldsSession(x) => ~WaitsForRegistry(x)
          /\ ~WaitChain(x, x, Cardinality(Requesters)))
  /\ \A x \in Requesters :
       (WaitsForRegistry(x) \/ WaitsForSession(x))
         ~> ~(WaitsForRegistry(x) \/ WaitsForSession(x))

\* The sweep holds the registry lock and waits for the lock of a session that
\* is broadcasting, while a connect waits for the registry lock behind it.
C30_Witness ==
  /\ mlock.holder = Sweeper
  /\ WaitsForSession(Sweeper)
  /\ WaitsForRegistry(CrossTask)
  /\ \E t \in RegTasks : WaitsFor(Sweeper, t)
====
